---------------------------- MODULE Spec2Model ----------------------------
(***************************************************************************)
(* A model of predictables_report: the numbering-style generator of        *)
(* BaseReport._number_style (itertools.count mapped through                *)
(* decimal_to_roman / decimal_to_abc), BaseReport.ol and the other list    *)
(* and heading appenders, and the names / links bookkeeping of             *)
(* BaseReport._add; then the rest of the report shell: inner_link, table,  *)
(* code, image, plot, style, build, the metadata setters and Report.set.   *)
(*                                                                         *)
(* The rendering engine (reportlab) is outside the repository. Its         *)
(* constructors return for the inputs drawn here; the calls whose outcome  *)
(* the repository does not settle (addBookmark on a flowable, doc.build,   *)
(* the pygments calls, the caller's plot function) either return or raise. *)
(*                                                                         *)
(* Python strings are sequences of one-character strings, so that          *)
(* concatenation, reversal, lower-casing and int formatting are computed.  *)
(* Python objects that are shared by reference (the flowables of           *)
(* self.elements, the itertools.count objects) live in stores indexed by   *)
(* an object id.                                                           *)
(***************************************************************************)
EXTENDS Integers, Sequences, FiniteSets, TLC

VARIABLES
    \* ---- the report (BaseReport.__init__) ----
    heap,       \* the flowable objects allocated so far, by object id
    elements,   \* self.elements: a list of object ids
    links,      \* self.links: ref -> [element, name]
    names,      \* self.names: name -> ref
    nuuid,      \* how many times uuid.uuid4() has been called
    call,       \* the last method called on the report, with the arguments that
                \* decide whether and what it raises
    err,        \* the exception that call raised, or NoError
    ret,        \* what call returned: Self, NoneValue, a str, or NoReturn if it raised
    \* ---- what the report holds besides its flowables (Report.__init__) ----
    styles,     \* self.styles: tag -> the attributes of that ParagraphStyle object
    doc,        \* self.doc: the attributes of the document template
    dests,      \* self.doc._namedDests: the destinations the engine has registered
    files,      \* the files of the working directory
    story,      \* the list doc.build was last handed, or NoStory
    \* ---- several reports in one process and one working directory ----
    reports,    \* the Report objects made so far, by report id; they share heap,
                \* nuuid and files
    \* ---- generators returned by _number_style ----
    counters,   \* the itertools.count objects allocated so far: next value of each
    gens,       \* the generator held by each call site, or NoGen
    yields,     \* the values each call site has pulled from its generator
    gerr,       \* the exception raised by the last _number_style call
    \* ---- one application of a style's conversion ----
    enumber,    \* the index handed to the conversion
    estyle,     \* the style
    elabel,     \* the value the generator yields for it, once computed
    epc,        \* "call" | "done" ("idle" where no conversion is run)
    \* ---- the loop of decimal_to_roman, statement by statement ----
    rstart,     \* the argument `number`
    rupper,     \* the argument `is_upper`
    rst,        \* the locals: number, result, and the position in roman_symbols
    rpc         \* "loop" | "done" ("idle" where the loop is not run)

reportVars == <<heap, elements, links, names, nuuid, call, err, ret>>
docVars    == <<styles, doc, dests, files, story>>
manyVars   == <<reports>>
genVars    == <<counters, gens, yields, gerr>>
encVars    == <<enumber, estyle, elabel, epc>>
romanVars  == <<rstart, rupper, rst, rpc>>
vars       == <<reportVars, docVars, manyVars, genVars, encVars, romanVars>>

-----------------------------------------------------------------------------
(* Bounds of the model *)

\* the largest index handed to a conversion
MaxNumber == 4000
\* the largest argument of the stepwise decimal_to_roman loop
MaxRoman == 4001
\* the most items of one list
MaxItems == 2
\* the most flowables in one report
MaxElements == 2
\* the most values pulled from one generator
MaxPull == 5
\* the most itertools.count objects allocated
MaxCounters == 3

-----------------------------------------------------------------------------
(* Python values *)

NoError == [type |-> "none"]
ValueError(msg) == [type |-> "ValueError", msg |-> msg]

\* an int and a str are different values, whatever they print as
IntVal(k) == [tag |-> "int", int |-> k]
StrVal(s) == [tag |-> "str", str |-> s]

DigitChars == <<"0", "1", "2", "3", "4", "5", "6", "7", "8", "9">>

\* str(k) / format(k, "") of a non-negative int
RECURSIVE IntToStr(_)
IntToStr(k) ==
    IF k < 10 THEN <<DigitChars[k + 1]>>
    ELSE IntToStr(k \div 10) \o <<DigitChars[(k % 10) + 1]>>

\* what an f-string replacement field {v} produces
Format(v) == IF v.tag = "int" THEN IntToStr(v.int) ELSE v.str

LowerMap ==
    [A |-> "a", B |-> "b", C |-> "c", D |-> "d", E |-> "e", F |-> "f", G |-> "g",
     H |-> "h", I |-> "i", J |-> "j", K |-> "k", L |-> "l", M |-> "m", N |-> "n",
     O |-> "o", P |-> "p", Q |-> "q", R |-> "r", S |-> "s", T |-> "t", U |-> "u",
     V |-> "v", W |-> "w", X |-> "x", Y |-> "y", Z |-> "z"]

\* str.lower(), character by character
LowerChar(c) == IF c \in DOMAIN LowerMap THEN LowerMap[c] ELSE c
LowerStr(s) == [i \in 1..Len(s) |-> LowerChar(s[i])]

\* s[::-1]
Reverse(s) == [i \in 1..Len(s) |-> s[Len(s) + 1 - i]]

-----------------------------------------------------------------------------
(* decimal_to_roman *)

\* a plausible slip: a table of the seven plain symbols, the subtractive pairs left out
roman_symbols_additive ==
    << [value |-> 1000, symbol |-> <<"M">>],
       [value |-> 500,  symbol |-> <<"D">>],
       [value |-> 100,  symbol |-> <<"C">>],
       [value |-> 50,   symbol |-> <<"L">>],
       [value |-> 10,   symbol |-> <<"X">>],
       [value |-> 5,    symbol |-> <<"V">>],
       [value |-> 1,    symbol |-> <<"I">> ] >>

roman_symbols ==
    << [value |-> 1000, symbol |-> <<"M">>],
       [value |-> 900,  symbol |-> <<"C", "M">>],
       [value |-> 500,  symbol |-> <<"D">>],
       [value |-> 400,  symbol |-> <<"C", "D">>],
       [value |-> 100,  symbol |-> <<"C">>],
       [value |-> 90,   symbol |-> <<"X", "C">>],
       [value |-> 50,   symbol |-> <<"L">>],
       [value |-> 40,   symbol |-> <<"X", "L">>],
       [value |-> 10,   symbol |-> <<"X">>],
       [value |-> 9,    symbol |-> <<"I", "X">>],
       [value |-> 5,    symbol |-> <<"V">>],
       [value |-> 4,    symbol |-> <<"I", "V">>],
       [value |-> 1,    symbol |-> <<"I">> ] >>

\* the locals of decimal_to_roman on entry: result = "", the for loop at the first entry
RomanEntry(number) == [number |-> number, result |-> <<>>, idx |-> 1]

\* the for loop has run out of entries: `return result`
RomanExhausted(st) == st.idx > Len(roman_symbols)

\* a plausible slip: `while number > value`
RomanStepStrict(st, is_upper) ==
    LET e == roman_symbols[st.idx] IN
    IF st.number > e.value
    THEN [st EXCEPT !.result = @ \o (IF is_upper THEN e.symbol ELSE LowerStr(e.symbol)),
                    !.number = @ - e.value]
    ELSE [st EXCEPT !.idx = @ + 1]

\* one evaluation of `while number >= value`: the body once, or on to the next entry
RomanStep(st, is_upper) ==
    LET e == roman_symbols[st.idx] IN
    IF st.number >= e.value
    THEN [st EXCEPT !.result = @ \o (IF is_upper THEN e.symbol ELSE LowerStr(e.symbol)),
                    !.number = @ - e.value]
    ELSE [st EXCEPT !.idx = @ + 1]

RECURSIVE RomanLoop(_, _)
RomanLoop(st, is_upper) ==
    IF RomanExhausted(st) THEN st ELSE RomanLoop(RomanStep(st, is_upper), is_upper)

decimal_to_roman(number, is_upper) == RomanLoop(RomanEntry(number), is_upper).result

-----------------------------------------------------------------------------
(* decimal_to_abc *)

alphabet ==
    <<"A", "B", "C", "D", "E", "F", "G", "H", "I", "J", "K", "L", "M",
      "N", "O", "P", "Q", "R", "S", "T", "U", "V", "W", "X", "Y", "Z">>

\* a plausible slip: standard base 26, the `number -= 1` forgotten
AbcLoopNoDecrement(number, result, is_upper) ==
    LET RECURSIVE Go(_, _)
        Go(m, r) ==
            IF m > 0
            THEN LET c == alphabet[(m % 26) + 1]
                 IN  Go(m \div 26, r \o <<IF is_upper THEN c ELSE LowerChar(c)>>)
            ELSE r
    IN Go(number, result)

\* the while loop of decimal_to_abc: the letters, least significant first
AbcLoop(number, result, is_upper) ==
    LET RECURSIVE Go(_, _)
        Go(m, r) ==
            IF m > 0
            THEN LET n == m - 1
                     c == alphabet[(n % 26) + 1]
                 IN  Go(n \div 26, r \o <<IF is_upper THEN c ELSE LowerChar(c)>>)
            ELSE r
    IN Go(number, result)

decimal_to_abc(number, is_upper) == Reverse(AbcLoop(number, <<>>, is_upper))

-----------------------------------------------------------------------------
(* _number_style: the style dispatch *)

ValidStyles == {"decimal", "lower-roman", "upper-roman", "lower-alpha", "upper-alpha"}

\* the styles a caller passes: the five, and some that are none of them
StyleInputs == ValidStyles \cup {"bogus-style"}

\* a plausible slip: the is_upper flags of the two roman branches exchanged
StyleMapCaseSwapped(style, x) ==
    CASE style = "decimal"     -> IntVal(x)
      [] style = "lower-roman" -> StrVal(decimal_to_roman(x, TRUE))
      [] style = "upper-roman" -> StrVal(decimal_to_roman(x, FALSE))
      [] style = "lower-alpha" -> StrVal(decimal_to_abc(x, TRUE))
      [] style = "upper-alpha" -> StrVal(decimal_to_abc(x, FALSE))

\* what the iterator returned for `style` makes of the counter's value x:
\* itertools.count itself for decimal, a map through a lambda for the others
StyleMap(style, x) ==
    CASE style = "decimal"     -> IntVal(x)
      [] style = "lower-roman" -> StrVal(decimal_to_roman(x, FALSE))
      [] style = "upper-roman" -> StrVal(decimal_to_roman(x, TRUE))
      [] style = "lower-alpha" -> StrVal(decimal_to_abc(x, FALSE))
      [] style = "upper-alpha" -> StrVal(decimal_to_abc(x, TRUE))

\* the ValueError of the else branch
StyleError(style) == ValueError(<<"Style ", style, " is not a valid number style.">>)


\* a plausible slip: one counter at class level, shared by every iterator
CountNewShared(cs) ==
    IF cs = <<>> THEN [cid |-> 1, store |-> <<1>>] ELSE [cid |-> 1, store |-> cs]

\* decimal_numb = itertools.count(1): a new counter object, its next value 1
CountNew(cs) == [cid |-> Len(cs) + 1, store |-> Append(cs, 1)]

\* a plausible slip: the counter read but never advanced
CountNextStuck(cs, cid) == [value |-> cs[cid], store |-> cs]

\* next() of an itertools.count: its value, and the counter moved on by one
CountNext(cs, cid) == [value |-> cs[cid], store |-> [cs EXCEPT ![cid] = @ + 1]]

\* a plausible slip: an unknown style falls back to decimal instead of raising
NumberStyleLenient(cs, n, style) ==
    LET c == CountNew(cs) IN
    [ok |-> TRUE,
     gen |-> [style |-> IF style \in ValidStyles THEN style ELSE "decimal", cid |-> c.cid],
     store |-> c.store, err |-> NoError]

\* _number_style(n, style): an iterator over a counter of its own, or the ValueError
\* (n is not read; the counter built before a failing dispatch is unreferenced)
NumberStyle(cs, n, style) ==
    LET c == CountNew(cs) IN
    IF style \in ValidStyles
    THEN [ok |-> TRUE, gen |-> [style |-> style, cid |-> c.cid], store |-> c.store,
          err |-> NoError]
    ELSE [ok |-> FALSE, store |-> cs, err |-> StyleError(style)]

\* next(styled_numbers)
GenNext(cs, gen) ==
    LET c == CountNext(cs, gen.cid) IN
    [value |-> StyleMap(gen.style, c.value), store |-> c.store]

-----------------------------------------------------------------------------
(* Idle values: the parts of the state a specification does not use *)

NoValue == [tag |-> "none"]
NoGen == [style |-> "none"]
NoCall == [op |-> "none"]
GenIds == {"g1", "g2"}

\* return values: the report itself, None, and nothing at all after a raise
Self == "self"
NoneValue == "None"
NoReturn == "<raised>"
NoStory == [built |-> FALSE]

\* getSampleStyleSheet(): the tags the methods index, each ParagraphStyle with the
\* attribute values the library gives it
StyleTags == {"Normal", "Code", "Hyperlink"} \cup {"Heading" \o ToString(l) : l \in 1..6}
StyleAttrs == {"fontSize", "textColor"}
SampleStyleSheet == [tag \in StyleTags |-> [a \in StyleAttrs |-> "default"]]

\* SimpleDocTemplate(filename, ...): the metadata attributes it is born with
DocAttrs == {"title", "author", "subject", "keywords"}
NewDoc == [a \in DocAttrs |-> NoneValue]

\* files of the working directory: the stem a name starts with, and the rest of it
File(stem, rest) == [stem |-> stem, rest |-> rest]
TempPlot(u) == File("temp_plot_", u)
\* file.startswith("temp_plot_")
IsTempPlot(f) == f.stem = "temp_plot_"
\* a file of the working directory that is no plot of any report
CwdAtStart == {File("data", 0)}

ReportIdle ==
    /\ heap = <<>>
    /\ elements = <<>>
    /\ links = <<>>
    /\ names = <<>>
    /\ nuuid = 0
    /\ call = NoCall
    /\ err = NoError
    /\ ret = NoReturn
    /\ styles = SampleStyleSheet
    /\ doc = NewDoc
    /\ dests = {}
    /\ files = CwdAtStart
    /\ story = NoStory
    /\ reports = <<>>

GenIdle ==
    /\ counters = <<>>
    /\ gens = [g \in GenIds |-> NoGen]
    /\ yields = [g \in GenIds |-> <<>>]
    /\ gerr = NoError

EncIdle ==
    /\ enumber = 0
    /\ estyle = "decimal"
    /\ elabel = NoValue
    /\ epc = "idle"

RomanIdle ==
    /\ rstart = 0
    /\ rupper = TRUE
    /\ rst = RomanEntry(0)
    /\ rpc = "idle"

-----------------------------------------------------------------------------
(* One application of a style's conversion to one index *)

EncInit ==
    /\ enumber \in 1..MaxNumber
    /\ estyle \in ValidStyles
    /\ elabel = NoValue
    /\ epc = "call"
    /\ ReportIdle /\ GenIdle /\ RomanIdle

EncApply ==
    /\ epc = "call"
    /\ elabel' = StyleMap(estyle, enumber)
    /\ epc' = "done"
    /\ UNCHANGED <<enumber, estyle, reportVars, docVars, manyVars, genVars, romanVars>>

EncNext == EncApply

SpecEnc == EncInit /\ [][EncNext]_vars

-----------------------------------------------------------------------------
(* decimal_to_roman, one loop test at a time *)

RomanInit ==
    /\ rstart \in 1..MaxRoman
    /\ rupper \in BOOLEAN
    /\ rst = RomanEntry(rstart)
    /\ rpc = "loop"
    /\ ReportIdle /\ GenIdle /\ EncIdle

RomanIterate ==
    /\ rpc = "loop"
    /\ ~RomanExhausted(rst)
    /\ rst' = RomanStep(rst, rupper)
    /\ UNCHANGED <<rstart, rupper, rpc, reportVars, docVars, manyVars, genVars, encVars>>

RomanReturn ==
    /\ rpc = "loop"
    /\ RomanExhausted(rst)
    /\ rpc' = "done"
    /\ UNCHANGED <<rstart, rupper, rst, reportVars, docVars, manyVars, genVars, encVars>>

RomanNext == RomanIterate \/ RomanReturn

\* the interpreter keeps running the function until it returns
SpecRoman == RomanInit /\ [][RomanNext]_vars /\ WF_vars(RomanNext)

-----------------------------------------------------------------------------
(* Iterators of _number_style held by independent call sites *)

GenInit == GenIdle /\ ReportIdle /\ EncIdle /\ RomanIdle

\* site g calls _number_style(n, style) and keeps what it returns
GenCreate(g, n, style) ==
    /\ Len(counters) < MaxCounters
    /\ LET r == NumberStyle(counters, n, style) IN
       /\ counters' = r.store
       /\ gerr' = r.err
       /\ IF r.ok
          THEN /\ gens' = [gens EXCEPT ![g] = r.gen]
               /\ yields' = [yields EXCEPT ![g] = <<>>]
          ELSE UNCHANGED <<gens, yields>>
    /\ UNCHANGED <<reportVars, docVars, manyVars, encVars, romanVars>>

\* site g calls next() on its iterator
GenPull(g) ==
    /\ gens[g] # NoGen
    /\ Len(yields[g]) < MaxPull
    /\ LET r == GenNext(counters, gens[g]) IN
       /\ counters' = r.store
       /\ yields' = [yields EXCEPT ![g] = Append(@, r.value)]
    /\ UNCHANGED <<gens, gerr, reportVars, docVars, manyVars, encVars, romanVars>>

GenNextStep ==
    \/ \E g \in GenIds, n \in {0, MaxItems}, style \in StyleInputs : GenCreate(g, n, style)
    \/ \E g \in GenIds : GenPull(g)

SpecGen == GenInit /\ [][GenNextStep]_vars

-----------------------------------------------------------------------------
(* The report: BaseReport.__init__, _add, heading, h1..h6, p, ul, ol *)

\* Optional arguments left at None. A caller's own values are drawn from the input
\* sets below, which hold none of these three.
NoneName == "<None>"
NoneId == "<None>"
NoneRef == 0

\* uuid.UUID values are positive numbers: CallerRefs are the ones a caller makes up,
\* and the k-th call of uuid.uuid4() returns one never seen before
CallerRefs == {1}
Uuid4(k) == Cardinality(CallerRefs) + k + 1

\* str(ref)
UuidStr(ref) == "uuid-" \o ToString(ref)

\* a new Paragraph flowable
Paragraph(text, style) ==
    [type |-> "Paragraph", text |-> text, style |-> style, bookmarks |-> <<>>]

\* self.styles[f"Heading{level}"]
HeadingStyle(level) == "Heading" \o ToString(level)

\* the report as the methods see it
Rep ==
    [heap |-> heap, elements |-> elements, links |-> links, names |-> names,
     nuuid |-> nuuid]

\* a new flowable object; its id is the next free one
Alloc(rep, obj) == [rep EXCEPT !.heap = Append(@, obj)]
LastOid(rep) == Len(rep.heap)

\* self.elements.append(...) of a flowable built in place
AppendNew(rep, obj) ==
    LET r == Alloc(rep, obj) IN [r EXCEPT !.elements = Append(@, LastOid(r))]

\* _add, self.links: links[ref] = {"element": element, "name": name or str(ref)}
AddLinks(lks, oid, name, ref) ==
    IF ref # NoneRef
    THEN [r \in DOMAIN lks \cup {ref} |->
             IF r = ref
             THEN [element |-> oid,
                   name |-> IF name # NoneName THEN name ELSE UuidStr(ref)]
             ELSE lks[r]]
    ELSE lks

\* _add, self.names: names[name] = ref
AddNames(nms, name, ref) ==
    IF ref # NoneRef /\ name # NoneName
    THEN [n \in DOMAIN nms \cup {name} |-> IF n = name THEN ref ELSE nms[n]]
    ELSE nms

\* _add(element, name, ref)
Add(rep, oid, name, ref) ==
    [rep EXCEPT !.elements = Append(@, oid),
                !.links = AddLinks(@, oid, name, ref),
                !.names = AddNames(@, name, ref)]

\* the error without the level in its message
LevelErrorSilent(level) ==
    ValueError(<<"Level must be between 1 and 6, inclusive.">>)

LevelError(level) ==
    ValueError(<<"Level must be between 1 and 6, inclusive. Got ", IntToStr(level), ".">>)

\* heading(level, text, name=name, ref=ref): the report after it, and what it raised
DoHeading(rep, level, text, name, ref) ==
    IF level \notin 1..6
    THEN [rep |-> rep, err |-> LevelError(level)]
    ELSE LET fresh == ref = NoneRef
             ref2 == IF fresh THEN Uuid4(rep.nuuid) ELSE ref
             r1 == IF fresh THEN [rep EXCEPT !.nuuid = @ + 1] ELSE rep
             r2 == Alloc(r1, Paragraph(text, HeadingStyle(level)))
         IN  [rep |-> Add(r2, LastOid(r2), name, ref2), err |-> NoError]

\* `if element_id is not None: self.elements[-1].addBookmark(element_id, ...)`.
\* addBookmark is a method of the external flowable, not of this repository: the call
\* either records the bookmark on the object or raises AttributeError.
DoBookmark(res, element_id, has_method) ==
    IF res.err # NoError \/ element_id = NoneId THEN res
    ELSE IF has_method
         THEN LET oid == res.rep.elements[Len(res.rep.elements)] IN
              [res EXCEPT !.rep.heap[oid].bookmarks = Append(@, element_id)]
         ELSE [res EXCEPT !.err = [type |-> "AttributeError", msg |-> <<"addBookmark">>]]

\* the for loop of ol: one Paragraph f"{next(styled_numbers)}. {t}" per item
RECURSIVE OlLoop(_, _, _, _)
OlLoop(rep, text, gen, store) ==
    IF text = <<>> THEN rep
    ELSE LET nx == GenNext(store, gen)
             para == Paragraph(Format(nx.value) \o <<".", " ">> \o Head(text), "Normal")
         IN  OlLoop(AppendNew(rep, para), Tail(text), gen, nx.store)

\* ol(text, number_style)
DoOl(rep, text, number_style) ==
    LET styled == NumberStyle(counters, Len(text), number_style) IN
    IF ~styled.ok
    THEN [rep |-> rep, err |-> styled.err]
    ELSE [rep |-> OlLoop(rep, text, styled.gen, styled.store), err |-> NoError]

\* the for loop of ul: one Paragraph f"{bullet_char} {t}" per item
RECURSIVE UlLoop(_, _, _)
UlLoop(rep, text, bullet_char) ==
    IF text = <<>> THEN rep
    ELSE UlLoop(AppendNew(rep, Paragraph(<<bullet_char, " ">> \o Head(text), "Normal")),
                Tail(text), bullet_char)

\* ---- what callers pass ----
\* heading levels: the ends of the valid range and their neighbours outside it
LevelInputs == {0, 1, 6, 7}
\* which of h2 .. h6 are called
HnLevels == {2, 6}
HeadingTexts == {<<"h">>}
ItemTexts == {<<"a">>, <<"b">>}
NameInputs == {NoneName, "n1"}
IdInputs == {NoneId, "e1"}
\* the default bullet (U+2022), one character
BulletInputs == {"u2022"}
\* None, a ref of the caller's making, or one read back from the report
RefInputs == {NoneRef} \cup CallerRefs \cup DOMAIN links
\* whether the flowable has an addBookmark method matters only when it is called
MethodInputs(element_id) == IF element_id = NoneId THEN {TRUE} ELSE BOOLEAN
\* the lists handed to ul and ol: x, y, x, y, ... for items x and y, of every length
AltList(x, y, n) == [i \in 1..n |-> IF i % 2 = 1 THEN x ELSE y]
TextLists == {AltList(x, y, n) : x \in ItemTexts, y \in ItemTexts, n \in 0..MaxItems}

\* the report and the outcome after a method has run and returned r
Outcome(res, c, r) ==
    /\ heap' = res.rep.heap
    /\ elements' = res.rep.elements
    /\ links' = res.rep.links
    /\ names' = res.rep.names
    /\ nuuid' = res.rep.nuuid
    /\ err' = res.err
    /\ call' = c
    /\ ret' = r
    /\ UNCHANGED <<manyVars, genVars, encVars, romanVars>>

\* `return self` at the end of a method, reached unless it raised
ReturnSelf(res) == IF res.err = NoError THEN Self ELSE NoReturn

\* a method that touches the flowables and the two tables only
Becomes(res, c) ==
    /\ Outcome(res, c, ReturnSelf(res))
    /\ UNCHANGED docVars

Room(k) == Len(elements) + k <= MaxElements

ReportInit == ReportIdle /\ GenIdle /\ EncIdle /\ RomanIdle

Heading(level, text, name, ref) ==
    /\ Room(1)
    /\ Becomes(DoHeading(Rep, level, text, name, ref),
               [op |-> "heading", level |-> level])

H1(text, element_id, name, ref, has_method) ==
    /\ Room(1)
    /\ Becomes(DoBookmark(DoHeading(Rep, 1, text, name, ref), element_id, has_method),
               [op |-> "h1", level |-> 1, element_id |-> element_id])

\* h2 .. h6: the same body with another level, and neither name nor ref
Hn(level, text, element_id, has_method) ==
    /\ Room(1)
    /\ Becomes(DoBookmark(DoHeading(Rep, level, text, NoneName, NoneRef), element_id,
                          has_method),
               [op |-> "hn", level |-> level, element_id |-> element_id])

P(text) ==
    /\ Room(1)
    /\ Becomes([rep |-> AppendNew(Rep, Paragraph(text, "Normal")), err |-> NoError],
               [op |-> "p"])

Ul(text, bullet_char) ==
    /\ Room(Len(text))
    /\ Becomes([rep |-> UlLoop(Rep, text, bullet_char), err |-> NoError],
               [op |-> "ul"])

Ol(text, number_style) ==
    /\ number_style \in ValidStyles => Room(Len(text))
    /\ Becomes(DoOl(Rep, text, number_style),
               [op |-> "ol", text |-> text, style |-> number_style])

ReportNext ==
    \/ \E level \in LevelInputs, text \in HeadingTexts, name \in NameInputs,
          ref \in RefInputs : Heading(level, text, name, ref)
    \/ \E text \in HeadingTexts, element_id \in IdInputs, name \in NameInputs,
          ref \in RefInputs :
          \E has_method \in MethodInputs(element_id) :
              H1(text, element_id, name, ref, has_method)
    \/ \E level \in HnLevels, text \in HeadingTexts, element_id \in IdInputs :
          \E has_method \in MethodInputs(element_id) :
              Hn(level, text, element_id, has_method)
    \/ \E text \in ItemTexts : P(text)
    \/ \E text \in TextLists, bullet_char \in BulletInputs : Ul(text, bullet_char)
    \/ \E text \in TextLists, number_style \in StyleInputs : Ol(text, number_style)

Spec == ReportInit /\ [][ReportNext]_vars

-----------------------------------------------------------------------------
(* The rest of the shell: inner_link, table, code, image, plot, style, build *)

\* the most calls of uuid.uuid4() by plot
MaxUuid == 3

\* inner_link(text, inner_link): the membership test on self.doc._namedDests, then one
\* Paragraph in the "Hyperlink" style
InnerLinkError(inner_link) ==
    ValueError(<<"inner_link ", inner_link,
                 " does not exist. Please define it before using it.">>)

\* Paragraph(f'<a href="#{inner_link}">{text}</a>', self.styles["Hyperlink"])
LinkParagraph(text, inner_link) ==
    Paragraph(<<"<a href=#", inner_link, ">">> \o text \o <<"</a>">>, "Hyperlink")

\* inner_link without the membership test
DoInnerLinkUnchecked(rep, ds, text, inner_link) ==
    [rep |-> AppendNew(rep, LinkParagraph(text, inner_link)), err |-> NoError]

DoInnerLink(rep, ds, text, inner_link) ==
    IF inner_link \notin ds
    THEN [rep |-> rep, err |-> InnerLinkError(inner_link)]
    ELSE [rep |-> AppendNew(rep, LinkParagraph(text, inner_link)), err |-> NoError]

\* what table is handed: a pandas DataFrame (columns, index, rows of values) or an
\* object of another type
DataFrame(columns, index, values) ==
    [kind |-> "DataFrame", columns |-> columns, index |-> index, values |-> values]
OtherObject(kind) == [kind |-> kind]

\* f"{type(df)}"
TypeStr(df) == <<"<class '", df.kind, "'>">>

TableError(df) ==
    ValueError(<<"df must be a pandas DataFrame, but got ">> \o TypeStr(df) \o <<".">>)

\* data = [[""] + columns] + [[index[i]] + values[i] for i ...]
TableData(df) ==
    <<(<<"">> \o df.columns)>> \o
    [i \in 1..Len(df.values) |-> <<df.index[i]>> \o df.values[i]]

\* a new Table flowable with the default TableStyle set on it
Table(data) == [type |-> "Table", data |-> data, style |-> "create_table_style"]

\* table that appends before it tests
DoTableAppendsFirst(rep, df) ==
    LET data == IF df.kind = "DataFrame" THEN TableData(df) ELSE <<>>
        r == AppendNew(rep, Table(data))
    IN  IF df.kind # "DataFrame"
        THEN [rep |-> r, err |-> TableError(df)]
        ELSE [rep |-> r, err |-> NoError]

\* table(df): the isinstance test, then one Table
DoTable(rep, df) ==
    IF df.kind # "DataFrame"
    THEN [rep |-> rep, err |-> TableError(df)]
    ELSE [rep |-> AppendNew(rep, Table(TableData(df))), err |-> NoError]

\* code(text, language): with a language, get_lexer_by_name and pygments.highlight
\* run before the Paragraph is made; they are external and either return or raise
DoCode(rep, text, language, highlights) ==
    IF language = NoneName
    THEN [rep |-> AppendNew(rep, Paragraph(text, "Code")), err |-> NoError]
    ELSE IF highlights
         THEN [rep |-> AppendNew(rep, Paragraph(<<"highlight:", language, ":">> \o text,
                                                "Code")),
               err |-> NoError]
         ELSE [rep |-> rep, err |-> [type |-> "PygmentsError", msg |-> <<language>>]]

\* a new Image flowable
Image(filename, width, height) ==
    [type |-> "Image", filename |-> filename, width |-> <<width, "inch">>,
     height |-> <<height, "inch">>]

\* image(filename, width, height)
DoImage(rep, filename, width, height) ==
    [rep |-> AppendNew(rep, Image(filename, width, height)), err |-> NoError]

\* plot(func, width, height): uuid4 names the file, func() and get_figure() run, savefig
\* writes the file, image() appends it. func is the caller's: it returns an Axes or
\* does not (it raises, or what it returns has no get_figure).
DoPlot(rep, fs, func_ok, width, height) ==
    LET temp_filename == TempPlot(Uuid4(rep.nuuid))
        r1 == [rep EXCEPT !.nuuid = @ + 1]
    IN  IF ~func_ok
        THEN [rep |-> r1, files |-> fs, err |-> [type |-> "FuncError", msg |-> <<>>]]
        ELSE [rep |-> DoImage(r1, temp_filename, width, height).rep,
              files |-> fs \cup {temp_filename}, err |-> NoError]

\* style(tag, k=v): setattr on the ParagraphStyle object of the tag, if it has k;
\* otherwise a warning and nothing else
DoStyle(sts, tag, k, v) ==
    IF tag \in DOMAIN sts /\ k \in DOMAIN sts[tag]
    THEN [sts EXCEPT ![tag][k] = v]
    ELSE sts

\* the bookmarks the flowables of a story carry
Bookmarks(hp, st) ==
    UNION { {hp[st[i]].bookmarks[j] : j \in DOMAIN hp[st[i]].bookmarks} :
            i \in {k \in DOMAIN st : hp[st[k]].type = "Paragraph"} }

\* self.doc.build(self.elements): the rendering engine, outside this repository. It
\* is handed the list; it either renders, registering the destinations the flowables
\* carry, or raises.
EngineBuild(hp, els, ds, renders) ==
    [story |-> [built |-> TRUE, flowables |-> els],
     dests |-> IF renders THEN ds \cup Bookmarks(hp, els) ELSE ds,
     err |-> IF renders THEN NoError ELSE [type |-> "EngineError", msg |-> <<>>]]

\* the loop of build over os.listdir(): os.remove of every temp_plot_ file
RemoveTempPlots(fs) == {f \in fs : ~IsTempPlot(f)}

\* build(): doc.build, then the removal loop, which an exception of doc.build skips
DoBuild(hp, els, ds, fs, renders) ==
    LET b == EngineBuild(hp, els, ds, renders) IN
    [story |-> b.story, dests |-> b.dests, err |-> b.err,
     files |-> IF b.err = NoError THEN RemoveTempPlots(fs) ELSE fs]

\* ---- what callers pass ----
ShellLevels == 0..7
DestInputs == {"e1", "e2"}
DataFrames ==
    { DataFrame(<<>>, <<>>, <<>>),
      DataFrame(<<"c1">>, <<"r1", "r2">>, << <<"v1">>, <<"v2">> >>) }
OtherObjects == {OtherObject("list"), OtherObject("NoneType")}
TableInputs == DataFrames \cup OtherObjects
LanguageInputs == {NoneName, "py"}
HighlightInputs(language) == IF language = NoneName THEN {TRUE} ELSE BOOLEAN
ShellLists == {AltList(<<"a">>, <<"b">>, n) : n \in 0..MaxItems}
ShellStyles == {"decimal", "bogus-style"}
TagInputs == {"Normal", "NoSuchTag"}

\* a method that leaves everything but the flowables and the two tables alone
InnerLink(text, inner_link) ==
    /\ Room(1)
    /\ Becomes(DoInnerLink(Rep, dests, text, inner_link),
               [op |-> "inner_link", dest |-> inner_link])

TableOp(df) ==
    /\ Room(1)
    /\ Becomes(DoTable(Rep, df), [op |-> "table", kind |-> df.kind])

Code(text, language, highlights) ==
    /\ Room(1)
    /\ Becomes(DoCode(Rep, text, language, highlights),
               [op |-> "code", language |-> language])

Plot(func_ok) ==
    /\ Room(1)
    /\ nuuid < MaxUuid
    /\ LET res == DoPlot(Rep, files, func_ok, 6, 4) IN
       /\ Outcome(res, [op |-> "plot"], ReturnSelf(res))
       /\ files' = res.files
    /\ UNCHANGED <<styles, doc, dests, story>>

Style(tag, k, v) ==
    /\ styles' = DoStyle(styles, tag, k, v)
    /\ Outcome([rep |-> Rep, err |-> NoError], [op |-> "style", tag |-> tag, attr |-> k],
               Self)
    /\ UNCHANGED <<doc, dests, files, story>>

\* build has no return statement
Build(renders) ==
    LET res == DoBuild(heap, elements, dests, files, renders) IN
    /\ story' = res.story
    /\ dests' = res.dests
    /\ files' = res.files
    /\ Outcome([rep |-> Rep, err |-> res.err], [op |-> "build"],
               IF res.err = NoError THEN NoneValue ELSE NoReturn)
    /\ UNCHANGED <<styles, doc>>

\* heading alone, at every level around the valid range
HeadingNext ==
    \E level \in ShellLevels, text \in HeadingTexts, name \in NameInputs,
       ref \in {NoneRef} \cup CallerRefs : Heading(level, text, name, ref)

SpecHeading == ReportInit /\ [][HeadingNext]_vars

\* bookmarked headings, links to them, tables and code, and the build
ContentNext ==
    \/ \E text \in HeadingTexts, element_id \in IdInputs :
          \E has_method \in MethodInputs(element_id) :
              H1(text, element_id, NoneName, NoneRef, has_method)
    \/ \E inner_link \in DestInputs : InnerLink(<<"a">>, inner_link)
    \/ \E df \in TableInputs : TableOp(df)
    \/ \E language \in LanguageInputs :
          \E highlights \in HighlightInputs(language) : Code(<<"a">>, language, highlights)
    \/ \E renders \in BOOLEAN : Build(renders)

SpecContent == ReportInit /\ [][ContentNext]_vars

\* every operation of the shell, each with few inputs
ShellNext ==
    \/ \E level \in {0, 1} : Heading(level, <<"h">>, "n1", NoneRef)
    \/ \E has_method \in BOOLEAN : H1(<<"h">>, "e1", NoneName, NoneRef, has_method)
    \/ \E has_method \in BOOLEAN : Hn(2, <<"h">>, "e1", has_method)
    \/ P(<<"a">>)
    \/ \E text \in ShellLists : Ul(text, "u2022")
    \/ \E text \in ShellLists \ {<<>>}, number_style \in ShellStyles :
          Ol(text, number_style)
    \/ InnerLink(<<"a">>, "e1")
    \/ \E df \in {DataFrame(<<>>, <<>>, <<>>), OtherObject("list")} : TableOp(df)
    \/ \E highlights \in BOOLEAN : Code(<<"a">>, "py", highlights)
    \/ \E func_ok \in BOOLEAN : Plot(func_ok)
    \/ \E tag \in TagInputs : Style(tag, "fontSize", "v1")
    \/ \E renders \in BOOLEAN : Build(renders)

SpecShell == ReportInit /\ [][ShellNext]_vars

-----------------------------------------------------------------------------
(* The metadata setters: title, author, subject, keywords, date, date_, Report.set *)

\* self.doc.<attr> = v: the attribute is made if the document has none of that name
SetAttr(dc, attr, v) == [a \in DOMAIN dc \cup {attr} |-> IF a = attr THEN v ELSE dc[a]]

\* a setter that also appends its text
DoSetterAppends(rep, dc, attr, text) ==
    [rep |-> AppendNew(rep, Paragraph(<<text>>, "Normal")),
     doc |-> SetAttr(dc, attr, text), err |-> NoError]

\* title(text), author(text), subject(text), keywords(text)
DoSetter(rep, dc, attr, text) ==
    [rep |-> rep, doc |-> SetAttr(dc, attr, text), err |-> NoError]

\* a datetime.date, and date=None
Date(y, m, d) == [year |-> y, month |-> m, day |-> d]
NoneDate == [year |-> 0, month |-> 0, day |-> 0]

\* date.strftime("%Y-%m-%d")
Pad2(k) == IF k < 10 THEN <<"0">> \o IntToStr(k) ELSE IntToStr(k)
Strftime(date) == IntToStr(date.year) \o <<"-">> \o Pad2(date.month) \o <<"-">> \o Pad2(date.day)

\* date(date): datetime.now() stands in for None
DoDate(rep, dc, date, now) ==
    LET dt == IF date = NoneDate THEN now ELSE date IN
    [rep |-> rep, doc |-> SetAttr(dc, "date", Strftime(dt)), err |-> NoError]

\* Report.set(k=v): setattr if the document has the attribute, otherwise a warning
DoSet(rep, dc, k, v) ==
    IF k \in DOMAIN dc
    THEN [rep |-> rep, doc |-> SetAttr(dc, k, v), err |-> NoError]
    ELSE [rep |-> rep, doc |-> dc, err |-> NoError]

\* ---- what callers pass, and what the clock reads ----
DateInputs == {NoneDate, Date(2024, 1, 5)}
NowInputs == {Date(2026, 11, 2)}
SetKeys == {"title", "date", "noSuchAttr"}

\* the report and the document after a setter has run and returned r
BecomesDoc(res, c, r) ==
    /\ Outcome(res, c, r)
    /\ doc' = res.doc
    /\ UNCHANGED <<styles, dests, files, story>>

Setter(attr, text) ==
    /\ attr \in DocAttrs
    /\ BecomesDoc(DoSetter(Rep, doc, attr, text), [op |-> attr], Self)

\* date has no return statement
DateOp(date, now) ==
    /\ now # NoneDate
    /\ BecomesDoc(DoDate(Rep, doc, date, now), [op |-> "date"], NoneValue)

\* date_ returns self.doc.date
DateAlias(date, now) ==
    /\ now # NoneDate
    /\ LET res == DoDate(Rep, doc, date, now) IN
       BecomesDoc(res, [op |-> "date_"], res.doc["date"])

SetOp(k, v) ==
    /\ v # NoneValue
    /\ BecomesDoc(DoSet(Rep, doc, k, v), [op |-> "set", key |-> k], Self)

MetaNext ==
    \/ \E attr \in DocAttrs : Setter(attr, "t1")
    \/ \E date \in DateInputs, now \in NowInputs : DateOp(date, now)
    \/ \E date \in DateInputs, now \in NowInputs : DateAlias(date, now)
    \/ \E k \in SetKeys : SetOp(k, "t2")
    \/ \E tag \in TagInputs : Style(tag, "fontSize", "v1")
    \/ \E name \in NameInputs : Heading(1, <<"h">>, name, NoneRef)
    \/ P(<<"a">>)

SpecMeta == ReportInit /\ [][MetaNext]_vars

-----------------------------------------------------------------------------
(* Several reports: Report.__init__, copy, deepcopy, and plot / build on each *)

\* the most Report objects made
MaxReports == 3

\* Report(filename): empty buffer and tables, a document of its own
NewReport(filename) ==
    [filename |-> filename, elements |-> <<>>, links |-> <<>>, names |-> <<>>,
     dests |-> {}, story |-> NoStory]

\* f"{self.filename.replace('.pdf', '')}-COPY.pdf", the name held without its ".pdf"
CopyName(filename) == filename \o <<"-COPY">>

\* report r as the methods of BaseReport see it
RepOf(r) ==
    [heap |-> heap, elements |-> reports[r].elements, links |-> reports[r].links,
     names |-> reports[r].names, nuuid |-> nuuid]

\* __copy__: a new Report whose elements is copy.copy(self.elements), a new list of
\* the same flowable objects
DoCopy(rs, r) ==
    Append(rs, [NewReport(CopyName(rs[r].filename)) EXCEPT !.elements = rs[r].elements])

\* copy.deepcopy(self.elements): a new list of new flowable objects, equal to the old
DeepCopyHeap(hp, els) == hp \o [i \in 1..Len(els) |-> hp[els[i]]]
DeepCopyList(hp, els) == [i \in 1..Len(els) |-> Len(hp) + i]

\* __deepcopy__
DoDeepCopy(hp, rs, r) ==
    Append(rs, [NewReport(CopyName(rs[r].filename)) EXCEPT
                   !.elements = DeepCopyList(hp, rs[r].elements)])

\* a report object as a return value
ReportRef(r) == "report-" \o ToString(r)

\* report r, the shared heap and uuid count, and the outcome after a method of r
After(r, res, c, rt) ==
    /\ heap' = res.rep.heap
    /\ nuuid' = res.rep.nuuid
    /\ reports' = [reports EXCEPT ![r].elements = res.rep.elements,
                                  ![r].links = res.rep.links,
                                  ![r].names = res.rep.names]
    /\ err' = res.err
    /\ call' = c
    /\ ret' = rt
    /\ UNCHANGED <<elements, links, names, styles, doc, dests, story, genVars, encVars, romanVars>>

\* the flowables of all reports together stay within the bound
RoomFor(k) == Len(heap) + k <= MaxElements

ManyInit ==
    /\ heap = <<>>
    /\ elements = <<>>
    /\ links = <<>>
    /\ names = <<>>
    /\ nuuid = 0
    /\ call = NoCall
    /\ err = NoError
    /\ ret = NoReturn
    /\ styles = SampleStyleSheet
    /\ doc = NewDoc
    /\ dests = {}
    /\ files = CwdAtStart
    /\ story = NoStory
    /\ reports = <<NewReport(<<"a">>), NewReport(<<"b">>)>>
    /\ GenIdle /\ EncIdle /\ RomanIdle

RHeading(r, name) ==
    /\ RoomFor(1)
    /\ LET res == DoHeading(RepOf(r), 1, <<"h">>, name, NoneRef) IN
       After(r, res, [op |-> "heading", self |-> r, level |-> 1], ReturnSelf(res))
    /\ UNCHANGED files

RPlot(r, func_ok) ==
    /\ RoomFor(1)
    /\ nuuid < MaxUuid
    /\ LET res == DoPlot(RepOf(r), files, func_ok, 6, 4) IN
       /\ After(r, res, [op |-> "plot", self |-> r], ReturnSelf(res))
       /\ files' = res.files

RBuild(r, renders) ==
    LET res == DoBuild(heap, reports[r].elements, reports[r].dests, files, renders) IN
    /\ reports' = [reports EXCEPT ![r].story = res.story, ![r].dests = res.dests]
    /\ files' = res.files
    /\ err' = res.err
    /\ call' = [op |-> "build", self |-> r]
    /\ ret' = IF res.err = NoError THEN NoneValue ELSE NoReturn
    /\ UNCHANGED <<heap, nuuid, elements, links, names, styles, doc, dests, story,
                   genVars, encVars, romanVars>>

RCopy(r) ==
    /\ Len(reports) < MaxReports
    /\ reports' = DoCopy(reports, r)
    /\ err' = NoError
    /\ call' = [op |-> "copy", self |-> r]
    /\ ret' = ReportRef(Len(reports) + 1)
    /\ UNCHANGED <<heap, nuuid, elements, links, names, docVars, genVars, encVars,
                   romanVars>>

RDeepCopy(r) ==
    /\ Len(reports) < MaxReports
    /\ RoomFor(Len(reports[r].elements))
    /\ heap' = DeepCopyHeap(heap, reports[r].elements)
    /\ reports' = DoDeepCopy(heap, reports, r)
    /\ err' = NoError
    /\ call' = [op |-> "deepcopy", self |-> r]
    /\ ret' = ReportRef(Len(reports) + 1)
    /\ UNCHANGED <<nuuid, elements, links, names, docVars, genVars, encVars, romanVars>>

ManyNext ==
    \/ \E r \in DOMAIN reports, name \in NameInputs : RHeading(r, name)
    \/ \E r \in DOMAIN reports, func_ok \in BOOLEAN : RPlot(r, func_ok)
    \/ \E r \in DOMAIN reports, renders \in BOOLEAN : RBuild(r, renders)
    \/ \E r \in DOMAIN reports : RCopy(r)
    \/ \E r \in DOMAIN reports : RDeepCopy(r)

SpecMany == ManyInit /\ [][ManyNext]_vars

-----------------------------------------------------------------------------
(* Properties of the conversions *)

\* the table as the specification states it: 1000=M, 900=CM, ..., 4=IV, 1=I
GreedyTable ==
    { [value |-> 1000, symbol |-> <<"M">>], [value |-> 900, symbol |-> <<"C", "M">>],
      [value |-> 500, symbol |-> <<"D">>],  [value |-> 400, symbol |-> <<"C", "D">>],
      [value |-> 100, symbol |-> <<"C">>],  [value |-> 90, symbol |-> <<"X", "C">>],
      [value |-> 50, symbol |-> <<"L">>],   [value |-> 40, symbol |-> <<"X", "L">>],
      [value |-> 10, symbol |-> <<"X">>],   [value |-> 9, symbol |-> <<"I", "X">>],
      [value |-> 5, symbol |-> <<"V">>],    [value |-> 4, symbol |-> <<"I", "V">>],
      [value |-> 1, symbol |-> <<"I">>] }

\* greedy subtraction: the symbol of the largest tabled value not exceeding the
\* remainder, then the same for what is left, until nothing is left
RECURSIVE GreedyRoman(_)
GreedyRoman(r) ==
    IF r = 0 THEN <<>>
    ELSE LET fit == {e \in GreedyTable : e.value <= r}
             top == CHOOSE e \in fit : \A f \in fit : f.value <= e.value
         IN  top.symbol \o GreedyRoman(r - top.value)

\* C2: for every index in 1..3999 the upper-roman label is the greedy subtraction
\* over the 13-entry table; 1 -> "I", 4 -> "IV", 9 -> "IX", 40 -> "XL".
C2_UpperRomanIsGreedy ==
    (epc = "done" /\ estyle = "upper-roman" /\ enumber \in 1..3999) =>
        /\ elabel = StrVal(GreedyRoman(enumber))
        /\ enumber = 1 => elabel.str = <<"I">>
        /\ enumber = 4 => elabel.str = <<"I", "V">>
        /\ enumber = 9 => elabel.str = <<"I", "X">>
        /\ enumber = 40 => elabel.str = <<"X", "L">>

C2_Witness ==
    /\ epc = "done" /\ estyle = "upper-roman" /\ enumber = 3999
    /\ elabel = StrVal(<<"M", "M", "M", "C", "M", "X", "C", "I", "X">>)

LetterRank ==
    [A |-> 1, B |-> 2, C |-> 3, D |-> 4, E |-> 5, F |-> 6, G |-> 7, H |-> 8, I |-> 9,
     J |-> 10, K |-> 11, L |-> 12, M |-> 13, N |-> 14, O |-> 15, P |-> 16, Q |-> 17,
     R |-> 18, S |-> 19, T |-> 20, U |-> 21, V |-> 22, W |-> 23, X |-> 24, Y |-> 25,
     Z |-> 26]

\* the number a bijective base-26 numeral denotes: digits A..Z worth 1..26
RECURSIVE BijectiveValue(_)
BijectiveValue(s) ==
    IF s = <<>> THEN 0
    ELSE 26 * BijectiveValue(SubSeq(s, 1, Len(s) - 1)) + LetterRank[s[Len(s)]]

\* C3: the upper-alpha label of an index is its bijective base-26 numeral: a
\* non-empty word over A..Z that denotes the index (so distinct indices have distinct
\* labels); 1 -> "A", 26 -> "Z", 27 -> "AA", 52 -> "AZ", 53 -> "BA".
C3_UpperAlphaIsBijective ==
    (epc = "done" /\ estyle = "upper-alpha") =>
        /\ elabel.tag = "str"
        /\ elabel.str # <<>>
        /\ \A i \in 1..Len(elabel.str) : elabel.str[i] \in DOMAIN LetterRank
        /\ BijectiveValue(elabel.str) = enumber
        /\ enumber = 1 => elabel.str = <<"A">>
        /\ enumber = 26 => elabel.str = <<"Z">>
        /\ enumber = 27 => elabel.str = <<"A", "A">>
        /\ enumber = 52 => elabel.str = <<"A", "Z">>
        /\ enumber = 53 => elabel.str = <<"B", "A">>

C3_Witness ==
    /\ epc = "done" /\ estyle = "upper-alpha" /\ enumber = 703
    /\ elabel = StrVal(<<"A", "A", "A">>)

\* C4: at every index the lower-roman label is the upper-roman label lower-cased
\* character by character, and the lower-alpha label the upper-alpha one lower-cased.
C4_LowerIsLowercasedUpper ==
    epc = "done" =>
        /\ estyle = "lower-roman" =>
               elabel = StrVal(LowerStr(decimal_to_roman(enumber, TRUE)))
        /\ estyle = "lower-alpha" =>
               elabel = StrVal(LowerStr(decimal_to_abc(enumber, TRUE)))

C4_Witness ==
    /\ epc = "done" /\ estyle = "lower-roman" /\ enumber = 1994
    /\ elabel = StrVal(<<"m", "c", "m", "x", "c", "i", "v">>)

\* C8: for every positive index, 4000 and above included, the loop of
\* decimal_to_roman ends, with the remainder exactly 0 and a label produced; every
\* symbol it emits leaves a smaller remainder that is still >= 0.
C8_RomanLoopTerminates ==
    /\ <>(rpc = "done" /\ rst.number = 0 /\ rst.result # <<>>)
    /\ [][(rpc = "loop" /\ rst'.result # rst.result) =>
              (rst'.number < rst.number /\ rst'.number >= 0)]_vars

C8_Witness ==
    /\ rpc = "done" /\ rstart = 4000 /\ rst.number = 0
    /\ rst.result = <<"M", "M", "M", "M">>

-----------------------------------------------------------------------------
(* Properties of the iterators *)

\* C5: the decimal iterator yields text: its k-th value is the base-10 text of k.
C5_DecimalYieldsText ==
    \A g \in GenIds :
        (gens[g] # NoGen /\ gens[g].style = "decimal") =>
            \A k \in 1..Len(yields[g]) : yields[g][k] = StrVal(IntToStr(k))

\* C7: an iterator carries nothing over from other iterators or earlier calls: however
\* creations and pulls of two call sites interleave, the k-th value a site pulls from
\* its current iterator is the style's value for index k, from 1.
C7_IteratorsIndependent ==
    \A g \in GenIds :
        gens[g] # NoGen =>
            \A k \in 1..Len(yields[g]) : yields[g][k] = StyleMap(gens[g].style, k)

C7_Witness ==
    /\ gens["g1"] # NoGen /\ gens["g2"] # NoGen
    /\ Len(counters) = 3
    /\ Len(yields["g1"]) = 3 /\ Len(yields["g2"]) = 2
    /\ yields["g1"][3] = StyleMap(gens["g1"].style, 3)
    /\ yields["g2"][1] = StyleMap(gens["g2"].style, 1)

-----------------------------------------------------------------------------
(* Properties of the report *)

\* the text of the label of index k in a style, as ol prints it
LabelText(style, k) == Format(StyleMap(style, k))

\* C1: for a valid style and a list of n >= 0 items, ol appends exactly n new
\* paragraphs after what the buffer held, in item order, the k-th reading
\* "<label of k>. <k-th item>": indices from 1, rising by 1, no label twice.
C1_OlAppendsLabelsInOrder ==
    [][(call'.op = "ol" /\ call'.style \in ValidStyles) =>
          LET text == call'.text
              style == call'.style
              n == Len(text)
              old == Len(elements)
          IN  /\ err' = NoError
              /\ Len(elements') = old + n
              /\ SubSeq(elements', 1, old) = elements
              /\ \A k \in 1..n :
                     LET oid == elements'[old + k] IN
                     /\ oid \notin DOMAIN heap
                     /\ heap'[oid].type = "Paragraph"
                     /\ heap'[oid].text = LabelText(style, k) \o <<".", " ">> \o text[k]
              /\ \A j, k \in 1..n : j # k => LabelText(style, j) # LabelText(style, k)
      ]_vars

C1_Witness ==
    /\ call.op = "ol" /\ call.style = "upper-roman" /\ Len(call.text) = 2
    /\ err = NoError
    /\ Len(elements) = 2
    /\ heap[elements[1]].text = <<"I", ".", " ", "a">>
    /\ heap[elements[2]].text = <<"I", "I", ".", " ", "b">>

\* C6: for a style that is none of the five and a list of any length, 0 included,
\* ol raises an error whose message holds the style; no paragraph is built, nothing
\* is appended and no counter is kept.
C6_InvalidStyleRaises ==
    [][(call'.op = "ol" /\ call'.style \notin ValidStyles) =>
          /\ err'.type = "ValueError"
          /\ \E i \in DOMAIN err'.msg : err'.msg[i] = call'.style
          /\ UNCHANGED <<heap, elements, links, names, counters>>
      ]_vars

C6_Witness ==
    /\ call.op = "ol" /\ call.style = "bogus-style" /\ Len(call.text) = MaxItems
    /\ err = StyleError("bogus-style")
    /\ Len(elements) = 1

\* C9: a name that is bound stays bound to the same identifier: no step changes
\* names[n] for a name n already in names.
C9_NameKeepsItsRef ==
    [][\A n \in DOMAIN names : n \in DOMAIN names' /\ names'[n] = names[n]]_vars

\* C10: an identifier stands for one element: no step changes the element that
\* links[r] records for an identifier r already in links.
C10_RefKeepsItsElement ==
    [][\A r \in DOMAIN links :
           r \in DOMAIN links' /\ links'[r].element = links[r].element]_vars

-----------------------------------------------------------------------------
(* Properties of the shell's operations *)

\* C11: heading accepts exactly the integer levels 1 .. 6: for those it appends one
\* heading in the style of the level; for every other integer level it raises an error
\* whose message holds the level, before anything is appended, registered or drawn
\* from uuid4.
C11_HeadingLevelRange ==
    [][call'.op = "heading" =>
          IF call'.level \in 1..6
          THEN /\ err' = NoError
               /\ Len(elements') = Len(elements) + 1
               /\ SubSeq(elements', 1, Len(elements)) = elements
               /\ heap'[elements'[Len(elements')]].style = HeadingStyle(call'.level)
          ELSE /\ err'.type = "ValueError"
               /\ Len(err'.msg) >= 2 /\ err'.msg[2] = IntToStr(call'.level)
               /\ UNCHANGED <<heap, elements, links, names, nuuid>>
      ]_vars

\* a level above the range has been rejected on a report that holds a heading
C11_Witness ==
    /\ call.op = "heading" /\ call.level = 7
    /\ err.type = "ValueError"
    /\ Len(elements) = 1 /\ heap[elements[1]].style = "Heading6"

\* exactly one new flowable obj has been appended after the old buffer
AppendedOne(obj) ==
    /\ Len(elements') = Len(elements) + 1
    /\ SubSeq(elements', 1, Len(elements)) = elements
    /\ elements'[Len(elements')] \notin DOMAIN heap
    /\ heap'[elements'[Len(elements')]] = obj
    /\ \A o \in DOMAIN heap : heap'[o] = heap[o]

Bookmarked == Bookmarks(heap, elements)

\* C13: once a heading has been added with bookmark id X, an inner_link to X called
\* before build is accepted and appends the link element.
C13_LinkToBookmarkedHeading ==
    [][(call'.op = "inner_link" /\ story = NoStory /\ call'.dest \in Bookmarked) =>
          /\ err' = NoError
          /\ Len(elements') = Len(elements) + 1
      ]_vars

\* C14: table(df) raises for every value that is not a DataFrame, before anything is
\* appended; for a DataFrame it appends exactly one table element, holding the header
\* row and one row per row of the frame.
C14_TableNeedsDataFrame ==
    [][call'.op = "table" =>
          IF call'.kind = "DataFrame"
          THEN /\ err' = NoError
               /\ \E df \in DataFrames : AppendedOne(Table(TableData(df)))
          ELSE /\ err'.type = "ValueError"
               /\ UNCHANGED <<heap, elements, links, names>>
      ]_vars

\* a list has been refused on a report that holds the table of a two-row frame
C14_Witness ==
    /\ call.op = "table" /\ call.kind = "list" /\ err.type = "ValueError"
    /\ Len(elements) = 1
    /\ heap[elements[1]].type = "Table"
    /\ Len(heap[elements[1]].data) = 3

\* the operations that append content
ContentOps == {"heading", "h1", "hn", "p", "ul", "ol", "inner_link", "table", "code", "plot"}

\* C15: no operation of the shell fails half-way: whenever heading, h1 .. h6, ol, ul,
\* inner_link, table, code or plot raises, the buffer, the names table and the links
\* table are exactly as they were before the call.
C15_NoPartialFailure ==
    [][(call'.op \in ContentOps /\ err' # NoError) =>
          UNCHANGED <<elements, names, links>>
      ]_vars

\* the metadata setters
MetaOps == DocAttrs \cup {"date", "date_", "set"}

\* C16: title, author, subject, keywords, date, date_ and Report.set change nothing
\* but the attributes of the document: the buffer, the flowables in it, the names
\* table and the links table are as before each of them.
C16_SettersLeaveContentAlone ==
    [][call'.op \in MetaOps =>
          UNCHANGED <<heap, elements, links, names, styles>>
      ]_vars

\* date_ has just set the date of a report that holds a named heading and a title
C16_Witness ==
    /\ call.op = "date_"
    /\ "date" \in DOMAIN doc /\ doc["date"] = ret
    /\ doc["title"] = "t1"
    /\ Len(elements) = 2
    /\ "n1" \in DOMAIN names

\* the operations that change the report or its document and are meant to chain
MutatingOps == ContentOps \cup {"style", "set", "title", "author", "subject", "date", "keywords"}

\* C19: every mutating operation returns the report it was called on: the content
\* appenders, style, set, and the setters title, author, subject, date and keywords.
C19_MutatorsReturnSelf ==
    (call.op \in MutatingOps /\ err = NoError) => ret = Self

\* the names plot has given to its files so far: one per uuid4 drawn
PlotNames == {TempPlot(Uuid4(k)) : k \in 0..(nuuid - 1)}

\* C17: once build has been called and has exited, none of the temp_plot files that
\* plot created on the report is left in the working directory.
C17_BuildRemovesTempPlots ==
    call.op = "build" => files \cap PlotNames = {}

\* a flowable as the engine will find it: the object, and for a Paragraph the
\* ParagraphStyle object it refers to
Rendered(hp, sts, oid) ==
    IF hp[oid].type = "Paragraph"
    THEN [obj |-> hp[oid], style |-> sts[hp[oid].style]]
    ELSE [obj |-> hp[oid]]

\* C18: the shell never changes an element after appending it: every operation, h1 ..
\* h6 with an element_id and style included, leaves each element of the buffer as it
\* was, and an element it appends is, when it returns, as it was when appended.
C18_AppendedElementsNeverChange ==
    [][/\ \A i \in DOMAIN elements :
             Rendered(heap', styles', elements[i]) = Rendered(heap, styles, elements[i])
       /\ \A i \in DOMAIN elements' \ DOMAIN elements :
             heap'[elements'[i]].type = "Paragraph" =>
                 heap'[elements'[i]].bookmarks = <<>>
      ]_vars

\* C20: the buffer is append-only and keeps its order: every operation leaves the old
\* buffer as a prefix of the new one, only an operation that is accepted adds to it, no
\* element occurs twice, and build hands the engine exactly the buffer.
C20_BufferAppendOnly ==
    [][/\ Len(elements') >= Len(elements)
       /\ SubSeq(elements', 1, Len(elements)) = elements
       /\ \A i, j \in DOMAIN elements' : elements'[i] = elements'[j] => i = j
       /\ err' # NoError => elements' = elements
       /\ call'.op = "build" => story'.flowables = elements
      ]_vars

-----------------------------------------------------------------------------
(* Properties of the two tables and of copies *)

\* C21: after any sequence of heading / h1 calls, with any name and ref, the two tables
\* agree: every name bound in names maps to a key of links, the entry under that key
\* records the name as its display name, and the element it records is in the buffer.
C21_TablesConsistent ==
    \A n \in DOMAIN names :
        /\ names[n] \in DOMAIN links
        /\ links[names[n]].name = n
        /\ \E i \in DOMAIN elements : elements[i] = links[names[n]].element

\* the files the Image flowables of report r refer to
ImageFiles(r) ==
    {heap[reports[r].elements[i]].filename :
        i \in {k \in DOMAIN reports[r].elements :
                  heap[reports[r].elements[k]].type = "Image"}}

\* C22: build on one report removes only the temporary files that report made: a plot
\* image that the buffer of another report refers to, and the buffer of the report
\* being built does not, stays in the directory.
C22_BuildRemovesOnlyOwnPlots ==
    [][call'.op = "build" =>
          \A r \in DOMAIN reports \ {call'.self} :
              ((ImageFiles(r) \ ImageFiles(call'.self)) \cap files) \subseteq files'
      ]_vars

\* the buffer and the two tables of report r
Content(rs, r) ==
    [elements |-> rs[r].elements, links |-> rs[r].links, names |-> rs[r].names]

\* C23: copy() returns a copy of the whole report: the new report's element sequence,
\* names table and links table equal the original's at the time of the copy, and
\* afterwards an append to one report leaves the buffer and tables of every other
\* report as they were.
C23_CopyIsWholeReport ==
    [][/\ call'.op = "copy" =>
             Content(reports', Len(reports')) = Content(reports, call'.self)
       /\ call'.op \in {"heading", "plot"} =>
             \A q \in DOMAIN reports \ {call'.self} :
                 Content(reports', q) = Content(reports, q)
      ]_vars

=============================================================================
